---- MODULE Spec2Model ----
(***************************************************************************)
(* Model of tools/callgraph/call_graph_generator.py: the Objective-C call  *)
(* graph generator (MethodCall, CallGraphGenerator, main).                 *)
(*                                                                         *)
(* A Python str is modelled as a sequence of one-character strings, so     *)
(* that the regular expressions, split/strip/join, startswith and the      *)
(* f-strings of the source are computed character by character.            *)
(***************************************************************************)
EXTENDS Integers, Sequences, FiniteSets, TLC

(***************************************************************************)
(* Characters                                                              *)
(***************************************************************************)
Lower == {"a","b","c","d","e","f","g","h","i","j","k","l","m",
          "n","o","p","q","r","s","t","u","v","w","x","y","z"}

Upper == {"A","B","C","D","E","F","G","H","I","J","K","L","M",
          "N","O","P","Q","R","S","T","U","V","W","X","Y","Z"}

Digit == {"0","1","2","3","4","5","6","7","8","9"}

\* the characters of the model's texts, in code-point order
CodePoints == <<"\t", "\n", "\r", " ", "!", "\"", "#", "$", "%", "&", "'", "(", ")", "*", "+", ",", "-", ".", "/", "0", "1", "2", "3", "4", "5", "6", "7", "8", "9", ":", ";", "<", "=", ">", "?", "@", "A", "B", "C", "D", "E", "F", "G", "H", "I", "J", "K", "L", "M", "N", "O", "P", "Q", "R", "S", "T", "U", "V", "W", "X", "Y", "Z", "[", "\\", "]", "^", "_", "a", "b", "c", "d", "e", "f", "g", "h", "i", "j", "k", "l", "m", "n", "o", "p", "q", "r", "s", "t", "u", "v", "w", "x", "y", "z", "{", "|", "}", "~">>

DecimalDigits == <<"0", "1", "2", "3", "4", "5", "6", "7", "8", "9">>

\* the rank of c in code-point order: Ord(c) < Ord(d) iff ord(c) < ord(d)
Ord(c) == CHOOSE i \in 1..Len(CodePoints) : CodePoints[i] = c

\* \w of the re module
IsWord(c) == c \in Lower \cup Upper \cup Digit \cup {"_"}

\* \s of the re module, and the characters str.strip() removes
IsSpace(c) == c \in {" ", "\t", "\n", "\r"}

\* [\w:]
IsWordColon(c) == IsWord(c) \/ c = ":"

\* [\w\s*]
IsReturnTypeChar(c) == IsWord(c) \/ IsSpace(c) \/ c = "*"

\* [^\]]
IsNotClose(c) == c # "]"

(***************************************************************************)
(* str operations                                                          *)
(***************************************************************************)
\* F applied to the value of v, with v evaluated once (a local variable)
Bind(v, F(_)) == CHOOSE r \in {F(x) : x \in {v}} : TRUE

\* the index after the longest run of characters of class C that starts at p
\* (what a greedy C* consumes from p)
RunEnd(s, p, C(_)) ==
    CHOOSE q \in p..(Len(s) + 1) :
        /\ \A r \in p..(q - 1) : C(s[r])
        /\ (q = Len(s) + 1 \/ ~C(s[q]))

\* the literal lit occurs in s at index p
HasAt(s, p, lit) ==
    /\ p + Len(lit) - 1 <= Len(s)
    /\ SubSeq(s, p, p + Len(lit) - 1) = lit

\* s.startswith(prefix)
StartsWith(s, prefix) == HasAt(s, 1, prefix)

\* c in s
Contains(s, c) == \E i \in 1..Len(s) : s[i] = c

\* s.strip()
Strip(s) ==
    Bind(RunEnd(s, 1, IsSpace), LAMBDA a :
        IF a > Len(s) THEN <<>>
        ELSE SubSeq(s, a, CHOOSE j \in a..Len(s) :
                              /\ ~IsSpace(s[j])
                              /\ \A r \in (j + 1)..Len(s) : IsSpace(s[r])))

\* the least element of a non-empty set of indices
First(hits) == CHOOSE h \in hits : \A g \in hits : h <= g

RECURSIVE SplitFrom(_, _, _)
SplitFrom(s, c, p) ==
    Bind({i \in p..Len(s) : s[i] = c}, LAMBDA hits :
        IF hits = {} THEN <<SubSeq(s, p, Len(s))>>
        ELSE Bind(First(hits), LAMBDA i :
                 <<SubSeq(s, p, i - 1)>> \o SplitFrom(s, c, i + 1)))

\* s.split(c), c a single character
Split(s, c) == SplitFrom(s, c, 1)

RECURSIVE Join(_, _)
\* sep.join(parts)
Join(parts, sep) ==
    IF parts = <<>> THEN <<>>
    ELSE IF Len(parts) = 1 THEN parts[1]
    ELSE Bind(Tail(parts), LAMBDA rest : parts[1] \o sep \o Join(rest, sep))

\* s.replace(".", " ")
ReplaceDots(s) == [i \in 1..Len(s) |-> IF s[i] = "." THEN " " ELSE s[i]]

\* [f(p) for p in parts]
MapSeq(parts, f(_)) == [i \in 1..Len(parts) |-> f(parts[i])]

RECURSIVE SelectNonEmpty(_)
\* [p for p in parts if p]
SelectNonEmpty(parts) ==
    IF parts = <<>> THEN <<>>
    ELSE Bind(Tail(parts), LAMBDA rest :
             (IF parts[1] = <<>> THEN <<>> ELSE <<parts[1]>>) \o SelectNonEmpty(rest))

RECURSIVE Decimal(_)
\* str(n) for n >= 0
Decimal(n) ==
    IF n < 10 THEN <<DecimalDigits[n + 1]>>
    ELSE Decimal(n \div 10) \o <<DecimalDigits[(n % 10) + 1]>>

\* a < b for str (code-point lexicographic order)
StrLess(a, b) ==
    \E k \in 1..(Len(a) + 1) :
        /\ k <= Len(b)
        /\ SubSeq(a, 1, k - 1) = SubSeq(b, 1, k - 1)
        /\ (k = Len(a) + 1 \/ Ord(a[k]) < Ord(b[k]))

RECURSIVE Sorted(_)
\* sorted(keys) for a set of distinct str
Sorted(keys) ==
    IF keys = {} THEN <<>>
    ELSE Bind(CHOOSE x \in keys : \A y \in keys \ {x} : StrLess(x, y), LAMBDA m :
         Bind(keys \ {m}, LAMBDA rest : <<m>> \o Sorted(rest)))

(***************************************************************************)
(* The regular expressions.  A match is <<>> (no match, Python's None) or  *)
(* a one-element sequence holding the groups and the index after the match.*)
(***************************************************************************)
None == <<>>

NoMatch == <<>>

\* interface_pattern.match at index p: @interface\s+(\w+)\s*:\s*(\w+)
InterfaceAt(s, p) ==
    IF ~HasAt(s, p, <<"@", "i", "n", "t", "e", "r", "f", "a", "c", "e">>) THEN NoMatch
    ELSE Bind(RunEnd(s, p + Len(<<"@", "i", "n", "t", "e", "r", "f", "a", "c", "e">>), IsSpace), LAMBDA b :
         Bind(RunEnd(s, b, IsWord), LAMBDA c :
         Bind(RunEnd(s, c, IsSpace), LAMBDA d :
             IF b > p + Len(<<"@", "i", "n", "t", "e", "r", "f", "a", "c", "e">>) /\ c > b /\ d <= Len(s) /\ s[d] = ":"
             THEN Bind(RunEnd(s, d + 1, IsSpace), LAMBDA e :
                  Bind(RunEnd(s, e, IsWord), LAMBDA g :
                      IF g > e
                      THEN <<[name |-> SubSeq(s, b, c - 1),
                              superclass |-> SubSeq(s, e, g - 1),
                              end |-> g]>>
                      ELSE NoMatch))
             ELSE NoMatch)))

\* re.search(interface_pattern, content): the leftmost match
SearchInterface(s) ==
    Bind({p \in 1..Len(s) : s[p] = "@" /\ InterfaceAt(s, p) # NoMatch}, LAMBDA hits :
        IF hits = {} THEN NoMatch
        ELSE Bind(First(hits), LAMBDA p : InterfaceAt(s, p)))

\* the common head of both method patterns at index p: ([+-])\s*\(([\w\s*]+)\)
\* gives the index after the closing parenthesis, 0 when it does not match
MethodHeadEnd(s, p) ==
    IF ~(p <= Len(s) /\ s[p] \in {"+", "-"}) THEN 0
    ELSE Bind(RunEnd(s, p + 1, IsSpace), LAMBDA a :
             IF ~(a <= Len(s) /\ s[a] = "(") THEN 0
             ELSE Bind(RunEnd(s, a + 1, IsReturnTypeChar), LAMBDA b :
                      IF b > a + 1 /\ b <= Len(s) /\ s[b] = ")" THEN b + 1 ELSE 0))

\* parse_interface's method_pattern at index p: ([+-])\s*\(([\w\s*]+)\)([\w:]+)[\s;]
DeclaredMethodAt(s, p) ==
    Bind(MethodHeadEnd(s, p), LAMBDA h :
        IF h = 0 THEN NoMatch
        ELSE Bind(RunEnd(s, h, IsWordColon), LAMBDA c :
                 IF c > h /\ c <= Len(s) /\ (IsSpace(s[c]) \/ s[c] = ";")
                 THEN <<[method_type |-> s[p],
                         method_name |-> SubSeq(s, h, c - 1),
                         end |-> c + 1]>>
                 ELSE NoMatch))

RECURSIVE FindDeclaredMethods(_, _)
\* re.finditer(method_pattern, content) from index p: non-overlapping, left to right
FindDeclaredMethods(s, p) ==
    Bind({q \in p..Len(s) : DeclaredMethodAt(s, q) # NoMatch}, LAMBDA hits :
        IF hits = {} THEN <<>>
        ELSE Bind(First(hits), LAMBDA q :
             Bind(DeclaredMethodAt(s, q), LAMBDA m :
             Bind(m[1].end, LAMBDA next : m \o FindDeclaredMethods(s, next)))))

\* impl_pattern at index p: @implementation\s+(\w+)
ImplementationAt(s, p) ==
    IF ~HasAt(s, p, <<"@", "i", "m", "p", "l", "e", "m", "e", "n", "t", "a", "t", "i", "o", "n">>) THEN NoMatch
    ELSE Bind(RunEnd(s, p + Len(<<"@", "i", "m", "p", "l", "e", "m", "e", "n", "t", "a", "t", "i", "o", "n">>), IsSpace), LAMBDA b :
         Bind(RunEnd(s, b, IsWord), LAMBDA c :
             IF b > p + Len(<<"@", "i", "m", "p", "l", "e", "m", "e", "n", "t", "a", "t", "i", "o", "n">>) /\ c > b
             THEN <<[name |-> SubSeq(s, b, c - 1), end |-> c]>>
             ELSE NoMatch))

\* re.search(impl_pattern, content)
SearchImplementation(s) ==
    Bind({p \in 1..Len(s) : s[p] = "@" /\ ImplementationAt(s, p) # NoMatch}, LAMBDA hits :
        IF hits = {} THEN NoMatch
        ELSE Bind(First(hits), LAMBDA p : ImplementationAt(s, p)))

RECURSIVE KeywordTailEnd(_, _)
\* the index after what (?::\w+\s*)* consumes from index p
KeywordTailEnd(s, p) ==
    IF ~(p <= Len(s) /\ s[p] = ":") THEN p
    ELSE Bind(RunEnd(s, p + 1, IsWord), LAMBDA w :
             IF w = p + 1 THEN p
             ELSE Bind(RunEnd(s, w, IsSpace), LAMBDA next : KeywordTailEnd(s, next)))

\* the index of the { or ; that (?::\w+\s*)* reaches from the colon at
\* index k, 0 when it reaches none
KeywordTailStop(s, k) ==
    Bind(KeywordTailEnd(s, k), LAMBDA t :
        IF s[k] = ":" /\ t <= Len(s) /\ s[t] \in {"{", ";"} THEN t ELSE 0)

\* parse_implementation's method_pattern at index p:
\*   ([+-])\s*\(([\w\s*]+)\)([\w:]+(?::\w+\s*)*)\s*[{;]
\* [\w:]+ first takes the whole run of word characters and colons; when
\* \s*[{;] does not follow, it backtracks to a colon of the run from which
\* (?::\w+\s*)* reaches the { or ;, and group 3 then runs up to that character.
MethodAt(s, p) ==
    Bind(MethodHeadEnd(s, p), LAMBDA h :
        IF h = 0 THEN NoMatch
        ELSE Bind(RunEnd(s, h, IsWordColon), LAMBDA c :
             Bind(RunEnd(s, c, IsSpace), LAMBDA q :
                 IF c = h THEN NoMatch
                 ELSE IF q <= Len(s) /\ s[q] \in {"{", ";"}
                 THEN <<[method_type |-> s[p],
                         method_name |-> SubSeq(s, h, c - 1),
                         end |-> q + 1]>>
                 ELSE Bind({KeywordTailStop(s, k) : k \in (h + 1)..(c - 1)} \ {0}, LAMBDA stops :
                          IF stops = {} THEN NoMatch
                          ELSE Bind(First(stops), LAMBDA t :
                                   <<[method_type |-> s[p],
                                      method_name |-> SubSeq(s, h, t - 1),
                                      end |-> t + 1]>>)))))

\* re.search(method_pattern, line)
SearchMethod(line) ==
    Bind({p \in 1..Len(line) : MethodAt(line, p) # NoMatch}, LAMBDA hits :
        IF hits = {} THEN NoMatch
        ELSE Bind(First(hits), LAMBDA p : MethodAt(line, p)))

\* method_calls_pattern at index p: \[\s*(self|super|\w+)\s+([\w:]+(?:\s+\w+:)*[^\]]*)\]
\* group 1 is the whole run of word characters (self and super must be
\* followed by a space); group 2 starts at a word character or colon and
\* runs up to the first ] after it.
MethodCallAt(s, p) ==
    IF ~(p <= Len(s) /\ s[p] = "[") THEN NoMatch
    ELSE Bind(RunEnd(s, p + 1, IsSpace), LAMBDA a :
         Bind(RunEnd(s, a, IsWord), LAMBDA b :
         Bind(RunEnd(s, b, IsSpace), LAMBDA c :
         Bind(RunEnd(s, c, IsNotClose), LAMBDA e :
             IF b > a /\ c > b /\ c <= Len(s) /\ IsWordColon(s[c]) /\ e <= Len(s)
             THEN <<[callee_receiver |-> SubSeq(s, a, b - 1),
                     full_method |-> SubSeq(s, c, e - 1),
                     start |-> p,
                     end |-> e + 1]>>
             ELSE NoMatch))))

RECURSIVE FindMethodCalls(_, _)
\* re.finditer(method_calls_pattern, line) from index p
FindMethodCalls(s, p) ==
    Bind({q \in p..Len(s) : MethodCallAt(s, q) # NoMatch}, LAMBDA hits :
        IF hits = {} THEN <<>>
        ELSE Bind(First(hits), LAMBDA q :
             Bind(MethodCallAt(s, q), LAMBDA m :
             Bind(m[1].end, LAMBDA next : m \o FindMethodCalls(s, next)))))

(***************************************************************************)
(* class MethodCall                                                        *)
(***************************************************************************)
\* the prefix list of MethodCall.__init__ and of parse_implementation
class_method_prefixes == <<<<"a", "l", "l", "o", "c">>, <<"n", "e", "w">>, <<"s", "h", "a", "r", "e", "d">>, <<"d", "e", "f", "a", "u", "l", "t">>, <<"c", "l", "a", "s", "s">>>>

\* any(name.startswith(prefix) for prefix in [...])
StartsWithClassPrefix(name) ==
    \E i \in 1..Len(class_method_prefixes) : StartsWith(name, class_method_prefixes[i])

\* "+" if any(method.startswith(prefix) ...) else "-"
PrefixType(method) == IF StartsWithClassPrefix(method) THEN "+" ELSE "-"

\* MethodCall(caller_class, caller_method, callee_class, callee_method);
\* invocation_index is <<>> while the attribute is not set, else <<index>>
MethodCall(caller_class, caller_method, callee_class, callee_method) ==
    [caller_class |-> caller_class,
     caller_method |-> caller_method,
     callee_class |-> callee_class,
     callee_method |-> callee_method,
     caller_type |-> PrefixType(caller_method),
     callee_type |-> PrefixType(callee_method),
     invocation_index |-> <<>>]

\* the "if ':' in name" branch of format_method_name: split on the colons,
\* strip the parts, drop the empty ones, join, append a colon
JoinLabels(name) ==
    Bind(Split(name, ":"), LAMBDA split :
    Bind(MapSeq(split, Strip) \o <<>>, LAMBDA stripped :
    Bind(SelectNonEmpty(stripped), LAMBDA parts : Join(parts, <<":">>) \o <<":">>)))

\* MethodCall.format_method_name
format_method_name(method_name) ==
    Bind(Strip(method_name), LAMBDA name :
        IF Contains(name, ":") THEN JoinLabels(name) ELSE name)

\* f"{type}[{class} {method}]"
Signature(type, class, method) == <<type, "[">> \o class \o <<" ">> \o method \o <<"]">>

\* MethodCall.get_caller_signature
get_caller_signature(call) ==
    Signature(call.caller_type, call.caller_class, format_method_name(call.caller_method))

\* MethodCall.get_callee_signature
get_callee_signature(call) ==
    Signature(call.callee_type, call.callee_class, format_method_name(call.callee_method))

\* MethodCall.__str__
Str(call) == get_caller_signature(call) \o <<" ", "-", ">", " ">> \o get_callee_signature(call)

(***************************************************************************)
(* class CallGraphGenerator: parse_interface                               *)
(***************************************************************************)
\* d[k] = v on a dict
Put(d, k, v) == [x \in (DOMAIN d) \cup {k} |-> IF x = k THEN v ELSE d[x]]

\* the dict with no key
EmptyDict == [x \in {} |-> <<>>]

\* parse_interface, the superclass part: the entry is stored under class_name
InterfaceHierarchy(hierarchy, content, class_name) ==
    Bind(SearchInterface(content), LAMBDA match :
        IF match # NoMatch THEN Put(hierarchy, class_name, match[1].superclass)
        ELSE hierarchy)

\* parse_interface, the method part: each matched name is added to
\* class_methods[class_name]; the defaultdict creates the key on the first add
InterfaceMethods(methods, content, class_name) ==
    Bind(FindDeclaredMethods(content, 1), LAMBDA found :
        IF found = <<>> THEN methods
        ELSE Put(methods, class_name,
                 (IF class_name \in DOMAIN methods THEN methods[class_name] ELSE {})
                     \cup {found[i].method_name : i \in 1..Len(found)}))

(***************************************************************************)
(* class CallGraphGenerator: parse_implementation                          *)
(***************************************************************************)
\* self.current_class after the @implementation search
ImplementationClass(content, file_class_name) ==
    Bind(SearchImplementation(content), LAMBDA impl_match :
        IF impl_match # NoMatch THEN impl_match[1].name ELSE file_class_name)

\* mutation of CalleeClass: super resolved like self
CalleeClassSuperAsSelf(callee_receiver, cls, hierarchy) ==
    IF callee_receiver \in {<<"s", "e", "l", "f">>, <<"s", "u", "p", "e", "r">>} THEN cls ELSE callee_receiver

\* "Handle self and super": the callee class of a call site
CalleeClass(callee_receiver, cls, hierarchy) ==
    IF callee_receiver = <<"s", "e", "l", "f">> THEN cls
    ELSE IF callee_receiver = <<"s", "u", "p", "e", "r">>
    THEN (IF cls \in DOMAIN hierarchy THEN hierarchy[cls] ELSE <<"U", "n", "k", "n", "o", "w", "n", "S", "u", "p", "e", "r", "O", "f">> \o cls)
    ELSE callee_receiver

\* callee_method_type
CalleeMethodType(full_method, callee_class) ==
    IF \/ StartsWithClassPrefix(full_method)
       \/ (callee_class[1] \in Upper /\ ~\E i \in 1..Len(callee_class) : callee_class[i] \in Lower)
    THEN "+" ELSE "-"

\* method_name of a call site: strip, and when it holds a colon, split on
\* the colons, strip the parts, join them and append a colon
CalleeMethodName(full_method) ==
    Bind(Strip(full_method), LAMBDA method_name :
        IF Contains(method_name, ":")
        THEN Bind(Split(method_name, ":"), LAMBDA split :
             Bind(MapSeq(split, Strip) \o <<>>, LAMBDA parts :
                 Join(parts, <<":">>) \o <<":">>))
        ELSE method_name)

\* f"{type} [{class} {method}]" with the dots replaced
Formatted(type, class, method) ==
    Bind(<<type, " ", "[">> \o class \o <<" ">> \o method \o <<"]">>, LAMBDA text :
        ReplaceDots(text) \o <<>>)

\* the MethodCall appended for one match of method_calls_pattern
CallOf(m, cls, hierarchy, current_method, current_method_type) ==
    Bind(CalleeClass(m.callee_receiver, cls, hierarchy), LAMBDA callee_class :
    Bind(Formatted(current_method_type, cls, current_method), LAMBDA formatted_caller :
    Bind(CalleeMethodType(m.full_method, callee_class), LAMBDA callee_method_type :
    Bind(CalleeMethodName(m.full_method), LAMBDA method_name :
    Bind(Formatted(callee_method_type, callee_class, method_name), LAMBDA formatted_callee :
        MethodCall(cls, formatted_caller, callee_class, formatted_callee))))))

\* the calls found on one line that is no method declaration, left to right,
\* each with the line number and column it was found at
LineCalls(line, i, cls, hierarchy, current_method, current_method_type) ==
    Bind(FindMethodCalls(line, 1), LAMBDA found :
        [k \in 1..Len(found) |->
            [call |-> CallOf(found[k], cls, hierarchy, current_method, current_method_type),
             line |-> i,
             column |-> found[k].start]] \o <<>>)

\* "if current_method:" (None and the empty string are both false)
HasCurrentMethod(current_method) == current_method # None

\* mutation of CallerContext: only the first declaration of a unit sets the context
CallerContextFirstOnly(method_match, current_method, current_method_type) ==
    IF current_method # None THEN <<current_method, current_method_type>>
    ELSE <<method_match.method_name, method_match.method_type>>

\* <<current_method, current_method_type>> after a line the method pattern
\* matched: both are overwritten from the match
CallerContext(method_match, current_method, current_method_type) ==
    <<method_match.method_name, method_match.method_type>>

RECURSIVE ScanLines(_, _, _, _, _, _)
\* the loop over enumerate(lines), from line i (0-based) on, entered with
\* the given current_method and current_method_type
ScanLines(lines, i, cls, hierarchy, current_method, current_method_type) ==
    IF i >= Len(lines) THEN <<>>
    ELSE Bind(lines[i + 1], LAMBDA line :
         Bind(SearchMethod(line), LAMBDA method_match :
             IF method_match # NoMatch
             THEN Bind(CallerContext(method_match[1], current_method, current_method_type),
                       LAMBDA context :
                           ScanLines(lines, i + 1, cls, hierarchy, context[1], context[2]))
             ELSE (IF HasCurrentMethod(current_method)
                   THEN LineCalls(line, i, cls, hierarchy, current_method, current_method_type)
                   ELSE <<>>)
                  \o ScanLines(lines, i + 1, cls, hierarchy, current_method,
                               current_method_type)))

\* parse_implementation: the calls it appends to call_graph
parse_implementation(content, file_class_name, hierarchy) ==
    Bind(Split(content, "\n"), LAMBDA lines :
    Bind(ImplementationClass(content, file_class_name), LAMBDA cls :
        ScanLines(lines, 0, cls, hierarchy, None, None)))

(***************************************************************************)
(* class CallGraphGenerator: print_call_graph                              *)
(***************************************************************************)
\* mutation of AssignInvocationIndices: invocation_count starts at 1
AssignInvocationIndicesFromOne(graph) ==
    [k \in 1..Len(graph) |-> [graph[k] EXCEPT !.invocation_index = <<k>>]]

\* the loop that sets call.invocation_index on every call of call_graph
AssignInvocationIndices(graph) ==
    [k \in 1..Len(graph) |-> [graph[k] EXCEPT !.invocation_index = <<k - 1>>]]

\* one StaticMethodInvocation(...) line
Fact(call) ==
    [invocation |-> <<"i", "n", "v", "o", "k", "e", "_">> \o call.caller_class \o <<"_">> \o call.caller_method
                       \o <<"_">> \o Decimal(call.invocation_index[1]),
     index |-> call.invocation_index[1],
     callee |-> get_callee_signature(call),
     caller |-> get_caller_signature(call)]

\* the calls of by_caller[caller_class], in the order they are printed
CallsOfCaller(graph, caller_class) ==
    SelectSeq(graph, LAMBDA call : call.caller_class = caller_class)

RECURSIVE TotalMethods(_)
\* sum(len(methods) for methods in class_methods.values())
TotalMethods(methods) ==
    IF DOMAIN methods = {} THEN 0
    ELSE Bind(CHOOSE x \in DOMAIN methods : TRUE, LAMBDA k :
         Bind([x \in (DOMAIN methods) \ {k} |-> methods[x]], LAMBDA rest :
             Cardinality(methods[k]) + TotalMethods(rest)))

\* the facts printed under "# caller_class:"
Section(graph, caller_class) ==
    Bind(CallsOfCaller(graph, caller_class), LAMBDA calls :
        [caller_class |-> caller_class, facts |-> MapSeq(calls, Fact) \o <<>>])

\* what print_call_graph prints: the hierarchy lines, the sections of
\* facts and the three statistics (graph already carries its indices)
Report(graph, methods, hierarchy) ==
    Bind(Sorted(DOMAIN hierarchy), LAMBDA classes :
    Bind(Sorted({graph[k].caller_class : k \in 1..Len(graph)}), LAMBDA callers :
        [hierarchy |-> [i \in 1..Len(classes) |-> <<classes[i], hierarchy[classes[i]]>>],
         sections |-> [i \in 1..Len(callers) |-> Section(graph, callers[i])],
         total_classes |-> Cardinality(DOMAIN methods),
         total_methods |-> TotalMethods(methods),
         total_method_calls |-> Len(graph)]))

(***************************************************************************)
(* Source files.  A file is its stem, its suffix, whether read_text()      *)
(* succeeds, and its text.                                                 *)
(***************************************************************************)
\* the text whose lines are the given lines
Text(lines) == Join(lines, <<"\n">>)

File(stem, suffix, text) == [stem |-> stem, suffix |-> suffix, readable |-> TRUE, text |-> text]

Unreadable(stem, suffix) == [stem |-> stem, suffix |-> suffix, readable |-> FALSE, text |-> <<>>]

DogHeader ==
    File(<<"D", "o", "g">>, <<".", "h">>, Text(<<<<"@", "i", "n", "t", "e", "r", "f", "a", "c", "e", " ", "D", "o", "g", " ", ":", " ", "A", "n", "i", "m", "a", "l">>, <<"-", " ", "(", "v", "o", "i", "d", ")", "b", "a", "r", "k", ";">>, <<"@", "e", "n", "d">>>>))

\* the declaration written the way the definition below is written
DogHeaderSpaced ==
    File(<<"D", "o", "g">>, <<".", "h">>, Text(<<<<"@", "i", "n", "t", "e", "r", "f", "a", "c", "e", " ", "D", "o", "g", " ", ":", " ", "A", "n", "i", "m", "a", "l">>, <<"-", "(", "v", "o", "i", "d", ")", " ", "b", "a", "r", "k", ";">>, <<"@", "e", "n", "d">>>>))

DogHeaderAgain ==
    File(<<"D", "o", "g">>, <<".", "h">>, Text(<<<<"@", "i", "n", "t", "e", "r", "f", "a", "c", "e", " ", "D", "o", "g", " ", ":", " ", "P", "e", "t">>, <<"+", " ", "(", "i", "d", ")", "s", "h", "a", "r", "e", "d", "D", "o", "g", ";">>, <<"@", "e", "n", "d">>>>))

\* a header whose file name is not the name of the class it declares
PetsHeader ==
    File(<<"P", "e", "t", "s">>, <<".", "h">>, Text(<<<<"@", "i", "n", "t", "e", "r", "f", "a", "c", "e", " ", "C", "a", "t", " ", ":", " ", "A", "n", "i", "m", "a", "l">>, <<"+", " ", "(", "i", "d", ")", "s", "h", "a", "r", "e", "d", "C", "a", "t", ";">>, <<"-", " ", "(", "v", "o", "i", "d", ")", "p", "u", "r", "r", ";">>, <<"@", "e", "n", "d">>>>))

\* a header with no @interface line
UtilHeader ==
    File(<<"U", "t", "i", "l">>, <<".", "h">>, Text(<<<<"-", " ", "(", "v", "o", "i", "d", ")", "r", "u", "n", ";">>, <<"-", " ", "(", "v", "o", "i", "d", ")", "s", "t", "o", "p", ";">>>>))

DogLines == <<<<"-", "(", "v", "o", "i", "d", ")", " ", "b", "a", "r", "k", " ", "{">>, <<"[", "s", "e", "l", "f", " ", "g", "r", "o", "w", "l", "]", ";">>, <<"[", "A", "n", "i", "m", "a", "l", " ", "s", "h", "a", "r", "e", "d", "I", "n", "s", "t", "a", "n", "c", "e", "]", ";">>, <<"}">>>>

DogSource == File(<<"D", "o", "g">>, <<".", "m">>, Text(DogLines))

DogSourceTight ==
    File(<<"D", "o", "g">>, <<".", "m">>, Text(<<<<"@", "i", "m", "p", "l", "e", "m", "e", "n", "t", "a", "t", "i", "o", "n", " ", "D", "o", "g">>, <<"-", "(", "v", "o", "i", "d", ")", "b", "a", "r", "k", " ", "{">>, <<"[", "s", "e", "l", "f", " ", "g", "r", "o", "w", "l", "]", ";">>,
                             <<"[", "A", "n", "i", "m", "a", "l", " ", "s", "h", "a", "r", "e", "d", "I", "n", "s", "t", "a", "n", "c", "e", "]", ";">>, <<"}">>, <<"[", "s", "u", "p", "e", "r", " ", "i", "n", "i", "t", "]", ";">>>>))

PetsSource ==
    File(<<"P", "e", "t", "s">>, <<".", "m">>, Text(<<<<"@", "i", "m", "p", "l", "e", "m", "e", "n", "t", "a", "t", "i", "o", "n", " ", "C", "a", "t">>, <<"[", "s", "e", "l", "f", " ", "e", "a", "r", "l", "y", "]", ";">>,
                              <<"+", " ", "(", "i", "d", ")", "s", "h", "a", "r", "e", "d", "C", "a", "t", " ", "{", " ", "[", "s", "e", "l", "f", " ", "h", "i", "d", "d", "e", "n", "]", ";">>,
                              <<"[", "s", "u", "p", "e", "r", " ", "h", "e", "l", "p", "e", "r", "]", ";", " ", "[", "N", "S", "U", "R", "L", " ", "d", "o", "W", "o", "r", "k", "]", ";">>, <<"}">>,
                              <<"-", " ", "(", "i", "d", ")", "n", "e", "w", "T", "h", "i", "n", "g", " ", "{">>, <<"[", "s", "e", "l", "f", " ", "s", "e", "t", "X", ":", "5", " ", "y", ":", "6", "]", ";">>, <<"[", "o", "b", "j", " ", "d", "o", "W", "o", "r", "k", " ", "]", ";">>>>))

\* a source with no @implementation line
UtilSource ==
    File(<<"U", "t", "i", "l">>, <<".", "m">>, Text(<<<<"-", " ", "(", "v", "o", "i", "d", ")", "r", "u", "n", " ", "{">>, <<"[", "s", "e", "l", "f", " ", "s", "t", "e", "p", "]", ";">>, <<"}">>, <<"[", "s", "u", "p", "e", "r", " ", "s", "t", "o", "p", "]", ";">>>>))

Files ==
    {DogHeader, DogHeaderSpaced, DogHeaderAgain, PetsHeader, UtilHeader,
     DogSource, DogSourceTight, PetsSource, UtilSource,
     Unreadable(<<"B", "a", "d">>, <<".", "h">>), Unreadable(<<"B", "a", "d">>, <<".", "m">>),
     File(<<"N", "o", "t", "e", "s">>, <<".", "t", "x", "t">>, <<"[", "s", "e", "l", "f", " ", "n", "o", "t", "e", "]", ";">>)}

\* the files find_source_files can return: GPUImage*.[hm] and GLProgram.[hm]
ProgramHeader ==
    File(<<"G", "L", "P", "r", "o", "g", "r", "a", "m">>, <<".", "h">>, Text(<<<<"@", "i", "n", "t", "e", "r", "f", "a", "c", "e", " ", "G", "L", "P", "r", "o", "g", "r", "a", "m", " ", ":", " ", "N", "S", "O", "b", "j", "e", "c", "t">>, <<"-", " ", "(", "v", "o", "i", "d", ")", "u", "s", "e", ";">>, <<"@", "e", "n", "d">>>>))

ProgramSource ==
    File(<<"G", "L", "P", "r", "o", "g", "r", "a", "m">>, <<".", "m">>, Text(<<<<"@", "i", "m", "p", "l", "e", "m", "e", "n", "t", "a", "t", "i", "o", "n", " ", "G", "L", "P", "r", "o", "g", "r", "a", "m">>, <<"-", " ", "(", "v", "o", "i", "d", ")", "u", "s", "e", " ", "{">>,
                                   <<"[", "s", "e", "l", "f", " ", "l", "i", "n", "k", "]", ";">>, <<"[", "s", "u", "p", "e", "r", " ", "i", "n", "i", "t", "]", ";">>, <<"}">>>>))

OutputHeader ==
    File(<<"G", "P", "U", "I", "m", "a", "g", "e", "O", "u", "t", "p", "u", "t">>, <<".", "h">>, Text(<<<<"@", "i", "n", "t", "e", "r", "f", "a", "c", "e", " ", "G", "P", "U", "I", "m", "a", "g", "e", "O", "u", "t", "p", "u", "t", " ", ":", " ", "N", "S", "O", "b", "j", "e", "c", "t">>, <<"+", " ", "(", "i", "d", ")", "s", "h", "a", "r", "e", "d", "O", "u", "t", "p", "u", "t", ";">>, <<"@", "e", "n", "d">>>>))

OutputSource ==
    File(<<"G", "P", "U", "I", "m", "a", "g", "e", "O", "u", "t", "p", "u", "t">>, <<".", "m">>, Text(<<<<"@", "i", "m", "p", "l", "e", "m", "e", "n", "t", "a", "t", "i", "o", "n", " ", "G", "P", "U", "I", "m", "a", "g", "e", "O", "u", "t", "p", "u", "t">>, <<"+", " ", "(", "i", "d", ")", "s", "h", "a", "r", "e", "d", "O", "u", "t", "p", "u", "t", " ", "{">>,
                                        <<"[", "G", "L", "P", "r", "o", "g", "r", "a", "m", " ", "a", "l", "l", "o", "c", "]", ";">>, <<"}">>>>))

FoundFiles == {ProgramHeader, ProgramSource, OutputHeader, OutputSource}

\* file_path.name
FileName(f) == f.stem \o f.suffix

(***************************************************************************)
(* State                                                                   *)
(***************************************************************************)
VARIABLES
    call_graph,       \* CallGraphGenerator.call_graph: the MethodCall list
    class_methods,    \* CallGraphGenerator.class_methods: class -> set of names
    class_hierarchy,  \* CallGraphGenerator.class_hierarchy: class -> superclass
    current_class,    \* CallGraphGenerator.current_class
    output,           \* <<>> or <<the report the last print_call_graph printed>>
    errors,           \* the names of the files an "Error processing" line was printed for
    source_files,     \* main: the list find_source_files returned
    pc,               \* main: "headers", "implementations", "print", "done", "aborted"
    file_index,       \* main: the position of the running for loop in source_files
    history,          \* the operations done so far, oldest first
    origin            \* for call_graph[k]: the operation, line and column that appended it

generator == <<call_graph, class_methods, class_hierarchy, current_class>>

driver == <<source_files, pc, file_index>>

vars == <<call_graph, class_methods, class_hierarchy, current_class, output, errors,
          source_files, pc, file_index, history, origin>>

\* the number of analyze_file and print_call_graph calls a run of Spec makes
MaxCalls == 3

\* the number of files find_source_files returns in a run of MainSpec
MaxFiles == 3

(***************************************************************************)
(* Operations                                                              *)
(***************************************************************************)
\* CallGraphGenerator.__init__
NewGenerator ==
    /\ call_graph = <<>>
    /\ class_methods = EmptyDict
    /\ class_hierarchy = EmptyDict
    /\ current_class = None
    /\ output = <<>>
    /\ errors = <<>>
    /\ history = <<>>
    /\ origin = <<>>

\* mutation of AppendCalls: the calls found are inserted at the front
InsertCallsFirst(graph, calls) == calls \o graph

\* self.call_graph.append(...) for each call found, in the order found
AppendCalls(graph, calls) == graph \o calls

\* mutation of analyze_file_raises: no try/except around read_text
RaisesWhenUnreadable(f) == ~f.readable

\* analyze_file catches every Exception of read_text and of the parsers,
\* so no call of it raises
analyze_file_raises(f) == FALSE

\* analyze_file(file_path)
analyze_file(f) ==
    /\ history' = Append(history, [op |-> "analyze_file", file |-> f])
    /\ UNCHANGED output
    /\ IF ~f.readable
       THEN /\ errors' = Append(errors, FileName(f))
            /\ UNCHANGED <<generator, origin>>
       ELSE IF f.suffix = <<".", "h">>
       THEN /\ class_hierarchy' = InterfaceHierarchy(class_hierarchy, f.text, f.stem)
            /\ class_methods' = InterfaceMethods(class_methods, f.text, f.stem)
            /\ UNCHANGED <<call_graph, current_class, errors, origin>>
       ELSE IF f.suffix = <<".", "m">>
       THEN \E found \in {parse_implementation(f.text, f.stem, class_hierarchy)} :
                /\ current_class' = ImplementationClass(f.text, f.stem)
                /\ call_graph' = AppendCalls(call_graph, MapSeq(found, LAMBDA c : c.call))
                /\ origin' = AppendCalls(origin,
                                 MapSeq(found, LAMBDA c : [unit |-> Len(history) + 1,
                                                           line |-> c.line,
                                                           column |-> c.column]))
                /\ UNCHANGED <<class_methods, class_hierarchy, errors>>
       ELSE UNCHANGED <<generator, errors, origin>>

\* print_call_graph()
print_call_graph ==
    /\ history' = Append(history, [op |-> "print_call_graph", file |-> None])
    /\ \E indexed \in {AssignInvocationIndices(call_graph) \o <<>>} :
          /\ call_graph' = indexed
          /\ output' = <<Report(indexed, class_methods, class_hierarchy)>>
    /\ UNCHANGED <<class_methods, class_hierarchy, current_class, errors, origin>>

(***************************************************************************)
(* Spec: one generator, called in any order                                *)
(***************************************************************************)
Init ==
    /\ NewGenerator
    /\ source_files = <<>>
    /\ pc = "calls"
    /\ file_index = 0

AnalyzeFile ==
    /\ pc = "calls"
    /\ Len(history) < MaxCalls
    /\ \E f \in Files : analyze_file(f)
    /\ UNCHANGED driver

PrintCallGraph ==
    /\ pc = "calls"
    /\ Len(history) < MaxCalls
    /\ print_call_graph
    /\ UNCHANGED driver

Next == AnalyzeFile \/ PrintCallGraph

Spec == Init /\ [][Next]_vars

(***************************************************************************)
(* MainSpec: main()                                                        *)
(***************************************************************************)
\* sorted(result.values()) for files with distinct names in one directory
SortedFiles(S) ==
    Bind(Sorted({FileName(f) : f \in S}), LAMBDA names :
        [i \in 1..Len(names) |-> CHOOSE f \in S : FileName(f) = names[i]])

\* the results of find_source_files: files of distinct names, sorted, each
\* of which read_text() can or cannot read
MainInit ==
    /\ NewGenerator
    /\ \E S \in SUBSET (FoundFiles \cup {Unreadable(f.stem, f.suffix) : f \in FoundFiles}) :
          /\ Cardinality(S) <= MaxFiles
          /\ \A f, g \in S : FileName(f) = FileName(g) => f = g
          /\ source_files = SortedFiles(S)
    /\ pc = "headers"
    /\ file_index = 1

\* one turn of "for file_path in source_files: if file_path.suffix == suffix:
\* generator.analyze_file(file_path)", or the end of that loop
MainLoop(here, suffix, then) ==
    /\ pc = here
    /\ IF file_index > Len(source_files)
       THEN /\ pc' = then
            /\ file_index' = 1
            /\ UNCHANGED <<generator, output, errors, history, origin>>
       ELSE LET f == source_files[file_index]
            IN  IF f.suffix # suffix
                THEN /\ file_index' = file_index + 1
                     /\ UNCHANGED <<pc, generator, output, errors, history, origin>>
                ELSE /\ analyze_file(f)
                     /\ IF analyze_file_raises(f)
                        THEN pc' = "aborted" /\ UNCHANGED file_index
                        ELSE file_index' = file_index + 1 /\ UNCHANGED pc
    /\ UNCHANGED source_files

MainHeaders == MainLoop("headers", <<".", "h">>, "implementations")

MainImplementations == MainLoop("implementations", <<".", "m">>, "print")

MainPrint ==
    /\ pc = "print"
    /\ print_call_graph
    /\ pc' = "done"
    /\ UNCHANGED <<source_files, file_index>>

MainNext == MainHeaders \/ MainImplementations \/ MainPrint

MainSpec == MainInit /\ [][MainNext]_vars

(***************************************************************************)
(* Properties                                                              *)
(***************************************************************************)
\* a is a prefix of b
IsPrefix(a, b) == Len(a) <= Len(b) /\ SubSeq(b, 1, Len(a)) = a

\* the last operation done
Last == history[Len(history)]

\* the last operation was analyze_file on a readable file of the given suffix
LastScanned(suffix) ==
    /\ history # <<>>
    /\ Last.op = "analyze_file"
    /\ Last.file.readable
    /\ Last.file.suffix = suffix

LastPrinted == history # <<>> /\ Last.op = "print_call_graph"

\* the positions in call_graph of the calls the last operation appended
LastCalls == {k \in 1..Len(call_graph) : origin[k].unit = Len(history)}

\* the line of the scanned file that call k was found on
LineOf(k) == Split(history[origin[k].unit].file.text, "\n")[origin[k].line + 1]

\* the call site (receiver token and message text) that call k was made from
SiteOf(k) == MethodCallAt(LineOf(k), origin[k].column)[1]

\* the lines of the last scanned file, and whether line i (0-based) is a
\* method-declaration header
LastLines == Split(Last.file.text, "\n")

IsHeader(i) == SearchMethod(LastLines[i + 1]) # NoMatch

\* the header that is the enclosing one for line i: the nearest header line above it
HeaderAbove(i) ==
    LET j == CHOOSE h \in 0..(i - 1) :
                 IsHeader(h) /\ \A g \in (h + 1)..(i - 1) : ~IsHeader(g)
    IN  SearchMethod(LastLines[j + 1])[1]

\* a discovered before b: earlier unit, then earlier line, then further left
DiscoveredBefore(a, b) ==
    \/ a.unit < b.unit
    \/ a.unit = b.unit /\ a.line < b.line
    \/ a.unit = b.unit /\ a.line = b.line /\ a.column < b.column

\* C1: after report rendering the n edges carry the invocation indices
\* 0..n-1 in sequence, and the edge with index k is the k-th discovered:
\* by unit processing order, then line, then column of the call site.
InvocationIndicesFollowDiscovery ==
    LastPrinted =>
        \A k \in 1..Len(call_graph) :
            /\ call_graph[k].invocation_index = <<k - 1>>
            /\ \A j \in 1..(k - 1) : DiscoveredBefore(origin[j], origin[k])

\* C1 witness: a rendered graph with edges of two units, two of them on one line
IndexedTwoUnits ==
    /\ LastPrinted
    /\ \E j, k \in 1..Len(call_graph) : origin[j].unit # origin[k].unit
    /\ \E j, k \in 1..Len(call_graph) :
          j # k /\ origin[j].unit = origin[k].unit /\ origin[j].line = origin[k].line

\* C2: the Dog scenario of the specification: the declaration of Dog, then
\* the definition unit with the four lines of DogLines, then the report, give
\* exactly the two edges -[Dog bark] -> -[Dog growl] (index 0) and
\* -[Dog bark] -> +[Animal sharedInstance] (index 1), and the summary
\* 1 class, 1 declared method, 2 call edges.
DogScenarioRendered ==
    (/\ Len(history) = 3
     /\ history[1] = [op |-> "analyze_file", file |-> DogHeader]
     /\ history[2] = [op |-> "analyze_file", file |-> DogSource]
     /\ history[3].op = "print_call_graph")
    => /\ Len(call_graph) = 2
       /\ Str(call_graph[1]) = <<"-", "[", "D", "o", "g", " ", "b", "a", "r", "k", "]", " ", "-", ">", " ", "-", "[", "D", "o", "g", " ", "g", "r", "o", "w", "l", "]">>
       /\ call_graph[1].invocation_index = <<0>>
       /\ Str(call_graph[2]) = <<"-", "[", "D", "o", "g", " ", "b", "a", "r", "k", "]", " ", "-", ">", " ", "+", "[", "A", "n", "i", "m", "a", "l", " ", "s", "h", "a", "r", "e", "d", "I", "n", "s", "t", "a", "n", "c", "e", "]">>
       /\ call_graph[2].invocation_index = <<1>>
       /\ output[1].total_classes = 1
       /\ output[1].total_methods = 1
       /\ output[1].total_method_calls = 2

\* the callee class the receiver token stands for
ReceiverClass(receiver, activeClass) ==
    IF receiver = <<"s", "e", "l", "f">> THEN activeClass
    ELSE IF receiver = <<"s", "u", "p", "e", "r">>
    THEN (IF activeClass \in DOMAIN class_hierarchy
          THEN class_hierarchy[activeClass]
          ELSE <<"U", "n", "k", "n", "o", "w", "n", "S", "u", "p", "e", "r", "O", "f">> \o activeClass)
    ELSE receiver

\* C3: every edge a definition-unit scan emits has the callee class its
\* receiver token stands for: self the unit's class, super the superclass
\* recorded for that class when the unit is scanned, or UnknownSuperOf<class>
\* when none is recorded, any other token itself.
CalleeClassFollowsReceiver ==
    LastScanned(<<".", "m">>) =>
        \A k \in LastCalls :
            call_graph[k].callee_class = ReceiverClass(SiteOf(k).callee_receiver, current_class)

\* C3 witness: a scan emitted an edge for a call to super in a class with a
\* recorded superclass
SuperResolved ==
    /\ LastScanned(<<".", "m">>)
    /\ \E k \in LastCalls :
          /\ SiteOf(k).callee_receiver = <<"s", "u", "p", "e", "r">>
          /\ current_class \in DOMAIN class_hierarchy
          /\ call_graph[k].callee_class = class_hierarchy[current_class]

\* what an edge is made from: the caller and the callee
Ends(call) ==
    <<call.caller_class, call.caller_method, call.callee_class, call.callee_method,
      call.caller_type, call.callee_type>>

\* the edges the step appends are those of a definition-unit scan
OnlyScansAppend ==
    Len(call_graph') > Len(call_graph) =>
        /\ history'[Len(history')].op = "analyze_file"
        /\ history'[Len(history')].file.readable
        /\ history'[Len(history')].file.suffix = <<".", "m">>

LooksLikeClass(receiver) ==
    /\ receiver[1] \in Upper
    /\ \A i \in 1..Len(receiver) : receiver[i] \notin Lower

\* C5: the rendered callee signature of every emitted edge is class-level (+)
\* exactly when the message name starts with alloc, new, shared, default or
\* class, or the receiver token looks like a class name; else instance (-).
CalleeKindRendered ==
    LastScanned(<<".", "m">>) =>
        \A k \in LastCalls :
            get_callee_signature(call_graph[k])[1] =
                (IF \/ \E i \in 1..Len(class_method_prefixes) :
                          StartsWith(SiteOf(k).full_method, class_method_prefixes[i])
                    \/ LooksLikeClass(SiteOf(k).callee_receiver)
                 THEN "+" ELSE "-")

\* the files main() hands to analyze_file, in order: the headers, then the sources
Handed ==
    SelectSeq(source_files, LAMBDA f : f.suffix = <<".", "h">>)
        \o SelectSeq(source_files, LAMBDA f : f.suffix = <<".", "m">>)

\* the files analyze_file was called on, in order
Analyzed ==
    LET calls == SelectSeq(history, LAMBDA h : h.op = "analyze_file")
    IN  [i \in 1..Len(calls) |-> calls[i].file]

\* C6: analyzing a unit whose text cannot be read returns without raising
\* and leaves class_hierarchy, class_methods and call_graph as they were; the
\* driver analyzes every remaining unit and then renders the report, and
\* no unit failure aborts the run.
UnreadableUnitSkipped ==
    /\ [][(/\ history' # history
           /\ history'[Len(history')].op = "analyze_file"
           /\ ~history'[Len(history')].file.readable)
          => UNCHANGED <<class_hierarchy, class_methods, call_graph>>]_vars
    /\ [](pc \in {"headers", "implementations", "print", "done"})
    /\ [](IsPrefix(Analyzed, Handed))
    /\ [](pc = "done" => /\ Analyzed = Handed
                         /\ LastPrinted
                         /\ output # <<>>)

\* C6 witness: the run ended after a source could not be read, and a source
\* handed over after it was scanned and contributed an edge
ScannedAfterUnreadable ==
    /\ pc = "done"
    /\ \E i, j \in 1..Len(history) :
          /\ i < j
          /\ history[i].op = "analyze_file" /\ ~history[i].file.readable
          /\ history[j].op = "analyze_file" /\ history[j].file.readable
          /\ \E k \in 1..Len(call_graph) : origin[k].unit = j

\* C7: within one definition-unit scan an edge is emitted only for a call
\* site on a line that is no method-declaration header and lies below a
\* header of the same unit, and its caller method is that of the nearest
\* header above its line, whatever lies between the two.
CallerIsNearestHeaderAbove ==
    LastScanned(<<".", "m">>) =>
        \A k \in LastCalls :
            LET i == origin[k].line
            IN  /\ ~IsHeader(i)
                /\ \E h \in 0..(i - 1) : IsHeader(h)
                /\ call_graph[k].caller_method =
                       Formatted(HeaderAbove(i).method_type, current_class,
                                 HeaderAbove(i).method_name)

\* C7 witness: an edge for a call site below the closing brace of the method
\* it is attributed to, in a unit scanned after another unit with headers
CallAfterClosingBrace ==
    /\ LastScanned(<<".", "m">>)
    /\ \E k \in LastCalls :
          \E h \in 0..(origin[k].line - 1) :
              /\ IsHeader(h)
              /\ \A g \in (h + 1)..(origin[k].line - 1) : ~IsHeader(g)
              /\ \E g \in (h + 1)..(origin[k].line - 1) : LastLines[g + 1] = <<"}">>
    /\ \E k \in 1..Len(call_graph) : origin[k].unit < Len(history)

\* C8: the rendered caller signature of every emitted edge is
\* <marker>[<class> <method>] with the + or - marker of the enclosing
\* method-declaration header.
CallerKindFromMarker ==
    LastScanned(<<".", "m">>) =>
        \A k \in LastCalls :
            (\E h \in 0..(origin[k].line - 1) : IsHeader(h)) =>
                get_caller_signature(call_graph[k]) =
                    Signature(HeaderAbove(origin[k].line).method_type, current_class,
                              HeaderAbove(origin[k].line).method_name)

\* C9: a declaration unit whose text has a header declaring class X with
\* superclass S records X -> S in the hierarchy and the unit's declared
\* methods under X.
DeclaredClassRecorded ==
    LastScanned(<<".", "h">>) =>
        LET header == SearchInterface(Last.file.text)
            declared == FindDeclaredMethods(Last.file.text, 1)
        IN  header # NoMatch =>
                /\ header[1].name \in DOMAIN class_hierarchy
                /\ class_hierarchy[header[1].name] = header[1].superclass
                /\ declared # <<>> =>
                       /\ header[1].name \in DOMAIN class_methods
                       /\ \A i \in 1..Len(declared) :
                              declared[i].method_name \in class_methods[header[1].name]

\* the last blank-separated word of s
LastWord(s) ==
    LET t == Strip(s)
    IN  IF t = <<>> THEN <<>>
        ELSE SubSeq(t, CHOOSE p \in 1..Len(t) :
                           /\ \A r \in p..Len(t) : ~IsSpace(t[r])
                           /\ (p = 1 \/ IsSpace(t[p - 1])),
                    Len(t))

\* the parameter labels of a message text, each followed by a colon
MessageLabels(text) ==
    LET parts == Split(text, ":")
    IN  Join([i \in 1..(Len(parts) - 1) |-> LastWord(parts[i])], <<":">>) \o <<":">>

\* s ends with tail
EndsWith(s, tail) == Len(tail) <= Len(s) /\ SubSeq(s, Len(s) - Len(tail) + 1, Len(s)) = tail

\* C10: the callee method name of every emitted edge is the trimmed message
\* text when that has no colon, and otherwise its parameter labels only,
\* each followed by a colon, with no argument text (setX:5 y:6 gives setX:y:).
CalleeNameIsLabels ==
    LastScanned(<<".", "m">>) =>
        \A k \in LastCalls :
            EndsWith(call_graph[k].callee_method,
                     <<" ">> \o (IF Contains(SiteOf(k).full_method, ":")
                                 THEN MessageLabels(SiteOf(k).full_method)
                                 ELSE Strip(SiteOf(k).full_method))
                             \o <<"]">>)

====
